---- MODULE Spec2Model ----
(***************************************************************************)
(* A model of pythonx/emmet.py: the abbreviation parser (parse and the     *)
(* operators table), the tag tree (Tag, Attribute, TagList, Emmet) and the *)
(* renderer (Emmet.tostr, Tag.tostr, Attribute.tostr, Jumpcount).          *)
(*                                                                         *)
(* Python objects live in a heap: tags and attrs are sequences of records, *)
(* an object's identity is its index.  Reference 0 is the Emmet root       *)
(* container e of parse(); None is -1.  A Python string is a sequence of   *)
(* one-character strings.  Every operation is a function from a heap       *)
(* to a result record [err, w, t]: err says that the Python code raised,   *)
(* w is the heap afterwards and t the value returned.                      *)
(***************************************************************************)
EXTENDS Integers, Sequences, FiniteSets, TLC

VARIABLES
    emmet,   \* parse(emmet): the characters of the abbreviation read so far
    tags,    \* heap of Tag objects
    attrs,   \* heap of Attribute objects
    e,       \* the Emmet root container: [children, parent]
    ct,      \* parse's current object: a node, or a TagList
    o,       \* parse's pending operation, or NoOp
    s,       \* parse's string that has been read
    pc,      \* "parse", "returned", "raised", "rendered", "attr", "attrdone"
    STACKED_MULTIPLICATION,  \* the global numbering policy
    out      \* the result of the last render

vars == <<emmet, tags, attrs, e, ct, o, s, pc, STACKED_MULTIPLICATION, out>>

----------------------------------------------------------------------------
(* Bounds of the model. *)

\* Spec: longest abbreviation read.
MaxLen == 5
\* SpecClimb: longest abbreviation read.
MaxClimbLen == 11
\* SpecMul: longest abbreviation read.
MaxMulLen == 7
\* SpecStack: longest abbreviation read.
MaxStackLen == 7
\* SpecClone: longest abbreviation read.
MaxCloneLen == 7
\* SpecAttr: longest attribute value, and largest multiplication index.
MaxValLen == 4
MaxIndex == 11
\* Tags on the heap; an operation that would allocate more is not taken.
MaxTags == 14

----------------------------------------------------------------------------
(* References and values. *)

None == -1
Root == 0

\* A value of parse's ct, or of an operator's result: one object or a TagList.
Single(r) == [list |-> FALSE, objs |-> <<r>>]
TagList(objs) == [list |-> TRUE, objs |-> objs]

World(tg, at, em) == [tags |-> tg, attrs |-> at, e |-> em]

Ok(w, t) == [err |-> FALSE, w |-> w, t |-> t]
Raise(w) == [err |-> TRUE, w |-> w, t |-> Single(None)]

\* The keys of the operators table that one character can match.
OperatorKeys == {">", "+", "^", "#", "[", "]", ".", "{", "}", "*", "(", ")"}
\* The keys whose entry is None.
ReservedKeys == {"[", "]", "{", "}", "(", ")"}

\* parse's o: None, or an operators entry under k stack_parents wrappers.
NoOp == [op |-> "", stack |-> 0]
Op(c, k) == [op |-> c, stack |-> k]

----------------------------------------------------------------------------
(* Tag, Emmet: construction and the tree links. *)

TagInit(name) ==
    [name |-> name, parent |-> None, children |-> <<>>, attributes |-> <<>>,
     mul_pos |-> 1, mul_end |-> 1]

\* Tag(name): the new object is the last of the heap.
NewTag(w, name) == [w EXCEPT !.tags = Append(@, TagInit(name))]

EmmetInit == [children |-> <<>>, parent |-> None]

Children(w, r) == IF r = Root THEN w.e.children ELSE w.tags[r].children

\* r.parent: the Emmet object has no parent attribute until one is assigned
\* (AttributeError); None has none either.
GetParent(w, r) ==
    IF r = None THEN Raise(w)
    ELSE IF r = Root
         THEN IF w.e.parent = None THEN Raise(w) ELSE Ok(w, w.e.parent)
         ELSE Ok(w, w.tags[r].parent)

SetParent(w, r, p) ==
    IF r = Root THEN [w EXCEPT !.e.parent = p]
    ELSE [w EXCEPT !.tags[r].parent = p]

AppendChild(w, p, t) ==
    IF p = Root THEN [w EXCEPT !.e.children = Append(@, t)]
    ELSE [w EXCEPT !.tags[p].children = Append(@, t)]

\* p > t for a Tag or the Emmet p: Tag.__gt__ and Emmet.__gt__ do the same.
\* None > t ends in TypeError or ValueError.
Gt(w, p, t) ==
    IF p = None \/ t = None THEN Raise(w)
    ELSE Ok(AppendChild(SetParent(w, t, p), p, t), t)

\* list.remove(t): the first occurrence goes.
RECURSIVE RemoveFirst(_, _)
RemoveFirst(seq, x) ==
    IF seq = <<>> THEN <<>>
    ELSE IF Head(seq) = x THEN Tail(seq)
    ELSE <<Head(seq)>> \o RemoveFirst(Tail(seq), x)

InSeq(seq, x) == \E i \in 1..Len(seq) : seq[i] = x

\* p < t.  Tag.__lt__ removes t from p.children (ValueError when absent).
\* Emmet defines no __lt__: Python then calls the reflected t.__gt__(p),
\* which makes the root container a child of t.
Lt(w, p, t) ==
    IF p = None \/ t = None \/ t = Root THEN Raise(w)
    ELSE IF p = Root THEN Gt(w, t, Root)
    ELSE IF InSeq(w.tags[p].children, t)
         THEN Ok([w EXCEPT !.tags[p].children = RemoveFirst(@, t)], t)
         ELSE Raise(w)

Tag_setmul(w, r, pos, end) ==
    [w EXCEPT !.tags[r].mul_pos = pos, !.tags[r].mul_end = end]

----------------------------------------------------------------------------
(* Attribute. *)

\* One element of Attribute.value: a raw string or, where nested, a list
\* holding that one string.
Str(chars) == [nested |-> FALSE, str |-> chars]
Nested(chars) == [nested |-> TRUE, str |-> chars]

\* Attribute(name, value) with a string value.
AttributeInit(name, chars) == [name |-> name, value |-> <<Str(chars)>>]

NewAttr(w, a) == [w EXCEPT !.attrs = Append(@, a)]

\* Attribute.clone: a new object with a copy of the value list.
Attribute_clone(w, a) == NewAttr(w, [name |-> w.attrs[a].name, value |-> w.attrs[a].value])

\* self + a for two Attributes of one name.  a.value is the one-string list
\* of a new Attribute, and self.value[0] = a.value stores that list.
IdAssign(value, avalue) == [value EXCEPT ![1] = Nested(avalue[1].str)]

ClassExtend(value, avalue) == value \o avalue

Attribute_add(w, self, a) ==
    IF w.attrs[a].name = w.attrs[self].name
    THEN IF w.attrs[self].name = "class"
         THEN [w EXCEPT !.attrs[self].value = ClassExtend(@, w.attrs[a].value)]
         ELSE [w EXCEPT !.attrs[self].value = IdAssign(@, w.attrs[a].value)]
    ELSE w

\* self.attributes.index(a): Attribute.__eq__ compares the names; 0: not in.
RECURSIVE IndexOfName(_, _, _, _)
IndexOfName(w, attributes, name, i) ==
    IF i > Len(attributes) THEN 0
    ELSE IF w.attrs[attributes[i]].name = name THEN i
    ELSE IndexOfName(w, attributes, name, i + 1)

\* Tag.__add__.
Tag_add(w, r, a) ==
    LET i == IndexOfName(w, w.tags[r].attributes, w.attrs[a].name, 1)
    IN  IF i = 0
        THEN Ok([w EXCEPT !.tags[r].attributes = Append(@, a)], Single(r))
        ELSE Ok(Attribute_add(w, w.tags[r].attributes[i], a), Single(r))

----------------------------------------------------------------------------
(* Tag.clone. *)

\* [a.clone() for a in self.attributes]: the clones are the last of the heap.
RECURSIVE CloneAttributes(_, _)
CloneAttributes(w, attributes) ==
    IF attributes = <<>> THEN w
    ELSE CloneAttributes(Attribute_clone(w, Head(attributes)), Tail(attributes))

NewIds(from, n) == [i \in 1..n |-> from + i]

\* A clone that shares the attribute objects of its template.
ShareAttributes(w, t, attributes) == [w EXCEPT !.tags[t].attributes = attributes]
CopyAttributes(w, t, attributes) ==
    LET w1 == CloneAttributes(w, attributes)
    IN  [w1 EXCEPT !.tags[t].attributes = NewIds(Len(w.attrs), Len(attributes))]

\* Tag.clone(mul).  A child's clone keeps the parent of the child it was made
\* from.  depth: the frames left before Python's RecursionError.
RECURSIVE Tag_clone(_, _, _, _), CloneChildren(_, _, _, _)
Tag_clone(w, r, mul, depth) ==
    IF r = Root \/ r = None \/ depth = 0 THEN Raise(w)
    ELSE LET w1 == NewTag(w, w.tags[r].name)
             t == Len(w1.tags)
             kids == CloneChildren(w1, w.tags[r].children, <<>>, depth - 1)
         IN  IF kids.err THEN Raise(w)
             ELSE LET w2 == [kids.w EXCEPT !.tags[t].children = kids.t.objs]
                      w3 == CopyAttributes(w2, t, w.tags[r].attributes)
                      w4 == SetParent(w3, t, w.tags[r].parent)
                  IN  Ok(Tag_setmul(w4, t, mul, w.tags[r].mul_end), Single(t))

CloneChildren(w, children, acc, depth) ==
    IF children = <<>> THEN Ok(w, TagList(acc))
    ELSE LET c == Tag_clone(w, Head(children), 1, depth)
         IN  IF c.err THEN Raise(w)
             ELSE CloneChildren(c.w, Tail(children), Append(acc, c.t.objs[1]), depth)

\* The recursion limit stands above any tree the bounds allow.
Frames(w) == Len(w.tags) + 1

----------------------------------------------------------------------------
(* TagList. *)

\* _iter_objs: one result is returned as it is, several as a TagList.
Collapse(res) == IF Len(res) = 1 THEN Single(res[1]) ELSE TagList(res)

\* TagList.__gt__: every member gets a clone of t of its own.
RECURSIVE TagList_gt(_, _, _, _)
TagList_gt(w, objs, t, res) ==
    IF objs = <<>> THEN Ok(w, Collapse(res))
    ELSE LET c == Tag_clone(w, t, 1, Frames(w))
         IN  IF c.err THEN Raise(w)
             ELSE LET g == Gt(c.w, Head(objs), c.t.objs[1])
                  IN  IF g.err THEN Raise(w)
                      ELSE TagList_gt(g.w, Tail(objs), t, Append(res, g.t))

\* TagList.__add__: every member gets a clone of a of its own.
RECURSIVE TagList_add(_, _, _, _)
TagList_add(w, objs, a, res) ==
    IF objs = <<>> THEN Ok(w, Collapse(res))
    ELSE IF Head(objs) = Root \/ Head(objs) = None THEN Raise(w)
    ELSE LET w1 == Attribute_clone(w, a)
             r == Tag_add(w1, Head(objs), Len(w1.attrs))
         IN  TagList_add(r.w, Tail(objs), a, Append(res, Head(objs)))

\* set(...): the members in the order of their first occurrence.  CPython
\* iterates a set of objects in an order of their addresses; the members of
\* one set here are interchangeable, so the tree built does not depend on it.
\* A list(...) in the place of set(...): every occurrence is kept.
KeepAll(seq, acc) == seq

RECURSIVE Dedup(_, _)
Dedup(seq, acc) ==
    IF seq = <<>> THEN acc
    ELSE Dedup(Tail(seq), IF InSeq(acc, Head(seq)) THEN acc ELSE Append(acc, Head(seq)))

\* TagList.parent.
RECURSIVE TagList_parent(_, _, _)
TagList_parent(w, objs, res) ==
    IF objs = <<>> THEN Ok(w, TagList(Dedup(res, <<>>)))
    ELSE LET p == GetParent(w, Head(objs))
         IN  IF p.err THEN Raise(w)
             ELSE TagList_parent(w, Tail(objs), Append(res, p.t))

\* x.parent for a value x.
ParentOf(w, x) ==
    IF x.list THEN TagList_parent(w, x.objs, <<>>)
    ELSE LET p == GetParent(w, x.objs[1])
         IN  IF p.err THEN Raise(w) ELSE Ok(w, Single(p.t))

\* x > Tag(name) for a value x.
GtNew(w, x, name) ==
    LET w1 == NewTag(w, name)
        t == Len(w1.tags)
    IN  IF x.list THEN TagList_gt(w1, x.objs, t, <<>>)
        ELSE LET g == Gt(w1, x.objs[1], t)
             IN  IF g.err THEN Raise(w) ELSE Ok(g.w, Single(g.t))

----------------------------------------------------------------------------
(* int(s). *)

Digits == <<"0", "1", "2", "3", "4", "5", "6", "7", "8", "9">>
IsDigit(c) == \E i \in 1..10 : Digits[i] = c
DigitVal(c) == (CHOOSE i \in 1..10 : Digits[i] = c) - 1

RECURSIVE Decimal(_, _)
Decimal(chars, acc) ==
    IF chars = <<>> THEN acc
    ELSE Decimal(Tail(chars), 10 * acc + DigitVal(Head(chars)))

AllDigits(chars) == chars # <<>> /\ \A i \in 1..Len(chars) : IsDigit(chars[i])

\* int(s) raises ValueError unless s is an optional sign and decimal digits.
IntOk(chars) ==
    IF chars # <<>> /\ Head(chars) = "-" THEN AllDigits(Tail(chars))
    ELSE AllDigits(chars)
IntVal(chars) ==
    IF Head(chars) = "-" THEN 0 - Decimal(Tail(chars), 0) ELSE Decimal(chars, 0)

----------------------------------------------------------------------------
(* The operators table. *)

\* '>': ct > Tag(s)
OpChild(w, x, name) == GtNew(w, x, name)

\* '+': ct.parent > Tag(s)
OpSibling(w, x, name) ==
    LET p == ParentOf(w, x)
    IN  IF p.err THEN Raise(w) ELSE GtNew(w, p.t, name)

\* A climb that stops one level short: the sibling operation.
ClimbIsSibling(w, x, name) == OpSibling(w, x, name)

\* '^' on a node or a TagList: ct.parent.parent > Tag(s)
OpClimb(w, x, name) ==
    LET p == ParentOf(w, x)
    IN  IF p.err THEN Raise(w)
        ELSE LET pp == ParentOf(w, p.t)
             IN  IF pp.err THEN Raise(w) ELSE GtNew(w, pp.t, name)

\* '#' and '.': ct + Attribute(name, s).  Emmet has no __add__.
OpAttribute(w, x, name, chars) ==
    LET w1 == NewAttr(w, AttributeInit(name, chars))
        a == Len(w1.attrs)
    IN  IF x.list THEN TagList_add(w1, x.objs, a, <<>>)
        ELSE IF x.objs[1] = Root \/ x.objs[1] = None THEN Raise(w)
        ELSE Tag_add(w1, x.objs[1], a)

\* [obj.setmul(end=n)] + [obj.parent > obj.clone(i) for i in range(2, n + 1)]
RECURSIVE MulClones(_, _, _, _, _)
MulClones(w, obj, i, n, res) ==
    IF i > n THEN Ok(w, TagList(res))
    ELSE LET p == GetParent(w, obj)
             c == Tag_clone(w, obj, i, Frames(w))
         IN  IF p.err \/ c.err THEN Raise(w)
             ELSE LET g == Gt(c.w, p.t, c.t.objs[1])
                  IN  IF g.err THEN Raise(w)
                      ELSE MulClones(g.w, obj, i + 1, n, Append(res, g.t))

MulOne(w, obj, n) ==
    IF obj = Root \/ obj = None THEN Raise(w)
    ELSE MulClones(Tag_setmul(w, obj, 1, n), obj, 2, n, <<obj>>)

\* TagList.clone(mul)
RECURSIVE TagList_clone(_, _, _, _)
TagList_clone(w, objs, mul, nobjs) ==
    IF objs = <<>> THEN Ok(w, TagList(nobjs))
    ELSE LET m == MulOne(w, Head(objs), mul)
         IN  IF m.err THEN Raise(w)
             ELSE TagList_clone(m.w, Tail(objs), mul, nobjs \o m.t.objs)

\* '*'
OpMul(w, x, chars) ==
    IF ~x.list /\ (x.objs[1] = Root \/ x.objs[1] = None) THEN Raise(w)
    ELSE IF ~IntOk(chars) THEN Raise(w)
    ELSE IF x.list THEN TagList_clone(w, x.objs, IntVal(chars), <<>>)
    ELSE MulOne(w, x.objs[1], IntVal(chars))

\* operators[c](ct, s) for a node or TagList ct.
Operator(w, c, x, chars) ==
    CASE c = ">" -> OpChild(w, x, chars)
      [] c = "+" -> OpSibling(w, x, chars)
      [] c = "^" -> OpClimb(w, x, chars)
      [] c = "#" -> OpAttribute(w, x, "id", chars)
      [] c = "." -> OpAttribute(w, x, "class", chars)
      [] c = "*" -> OpMul(w, x, chars)
      [] OTHER -> Raise(w)

\* stack_parents: obj.parent < obj, then obj.parent.parent > obj.
AttachAtParent(w, obj) ==
    LET p == GetParent(w, obj)
    IN  IF p.err THEN Raise(w)
        ELSE LET l == Lt(w, p.t, obj)
             IN  IF l.err THEN Raise(w)
                 ELSE LET q == GetParent(l.w, obj)
                          pp == IF q.err THEN q ELSE GetParent(l.w, q.t)
                      IN  IF pp.err THEN Raise(w) ELSE Gt(l.w, pp.t, obj)

RECURSIVE AttachAll(_, _)
AttachAll(w, objs) ==
    IF objs = <<>> THEN Ok(w, Single(None))
    ELSE LET a == AttachAtParent(w, Head(objs))
         IN  IF a.err THEN Raise(w) ELSE AttachAll(a.w, Tail(objs))

\* o(ct, s) for a pending operation o: the table's entry under o.stack
\* stack_parents wrappers, the innermost applied first.
RECURSIVE Apply(_, _, _, _)
Apply(w, op, x, chars) ==
    IF op.stack = 0 THEN Operator(w, op.op, x, chars)
    ELSE LET t == Apply(w, Op(op.op, op.stack - 1), x, chars)
         IN  IF t.err THEN Raise(w)
             ELSE LET a == AttachAll(t.w, t.t.objs)
                  IN  IF a.err THEN Raise(w) ELSE Ok(a.w, t.t)

\* operators[c](o, s) for a pending operation o in the place of ct: '^'
\* wraps it (callable(ct)), None is not callable, and every other entry
\* fails on the function it is handed.
Curry(op, c) == IF c = "^" THEN Op(op.op, op.stack + 1) ELSE NoOp
CurryRaises(c) == c # "^"

----------------------------------------------------------------------------
(* parse. *)

\* The locals of parse: the heap reachable from e, ct, o, s, and whether an
\* exception has left the function.
Locals(w, x, op, chars) == [err |-> FALSE, w |-> w, ct |-> x, o |-> op, s |-> chars]
Raised == [err |-> TRUE, w |-> World(<<>>, <<>>, EmmetInit), ct |-> Single(Root),
           o |-> NoOp, s |-> <<>>]

\* e = Emmet(); ct = e; o = None; s = ''
ParseInit == Locals(World(<<>>, <<>>, EmmetInit), Single(Root), NoOp, <<>>)

\* if o and s: ct = o(ct, s); s = ''; o = None
Resolve(st) ==
    IF st.o # NoOp /\ st.s # <<>>
    THEN LET r == Apply(st.w, st.o, st.ct, st.s)
         IN  IF r.err THEN Raised ELSE Locals(r.w, r.t, NoOp, <<>>)
    ELSE st

\* o = operators[c](o, s) if o else operators[c]
Pend(st, c) ==
    IF st.err THEN Raised
    ELSE IF st.o # NoOp
         THEN IF CurryRaises(c) THEN Raised ELSE [st EXCEPT !.o = Curry(st.o, c)]
         ELSE [st EXCEPT !.o = IF c \in ReservedKeys THEN NoOp ELSE Op(c, 0)]

\* if ct is e and s: ct = e > Tag(s); s = ''
FirstTag(st) ==
    IF st.err THEN Raised
    ELSE IF st.ct = Single(Root) /\ st.s # <<>>
         THEN LET g == GtNew(st.w, Single(Root), st.s)
              IN  Locals(g.w, g.t, st.o, <<>>)
         ELSE st

\* One turn of the loop over the characters of the abbreviation.
LoopBody(st, c) ==
    IF c \notin OperatorKeys
    THEN IF c = " " THEN st ELSE [st EXCEPT !.s = Append(@, c)]
    ELSE FirstTag(Pend(Resolve(st), c))

\* The fall back at the end of the string, and return e.
EndOfString(st) ==
    IF st.s # <<>> /\ (st.o # NoOp \/ st.ct = Single(Root))
    THEN IF st.ct = Single(Root)
         THEN LET g == GtNew(st.w, Single(Root), st.s)
              IN  [st EXCEPT !.w = g.w]
         ELSE LET r == Apply(st.w, st.o, st.ct, st.s)
              IN  IF r.err THEN Raised ELSE [st EXCEPT !.w = r.w]
    ELSE st

----------------------------------------------------------------------------
(* Attribute.tostr. *)

RECURSIVE DecimalChars(_)
DecimalChars(n) ==
    IF n < 10 THEN <<Digits[n + 1]>>
    ELSE Append(DecimalChars(n \div 10), Digits[(n % 10) + 1])

Zeros(k) == [i \in 1..k |-> "0"]

\* '%d' in the place of '%0<pad>d': no padding.
Unpadded(pad, mul) == DecimalChars(mul)

\* ('%0' + str(pad) + 'd') % mul: the sign, then zeros up to the width pad,
\* then the decimal digits.
Format(pad, mul) ==
    LET digits == DecimalChars(IF mul < 0 THEN 0 - mul ELSE mul)
        sign == IF mul < 0 THEN <<"-">> ELSE <<>>
        have == Len(sign) + Len(digits)
    IN  sign \o Zeros(IF pad > have THEN pad - have ELSE 0) \o digits

\* for c in v: the characters of a string, or the one string of a list.
Items(v) == IF v.nested THEN <<v.str>> ELSE [i \in 1..Len(v.str) |-> <<v.str[i]>>]

\* The loop over one value v, with its nv and pad: a character other than
\* '$' first ends a run of '$' and then is copied; a '$' grows the run.
RECURSIVE ValueLoop(_, _, _, _)
ValueLoop(items, mul, nv, pad) ==
    IF items = <<>> THEN [nv |-> nv, pad |-> pad]
    ELSE IF Head(items) = <<"$">> THEN ValueLoop(Tail(items), mul, nv, pad + 1)
    ELSE ValueLoop(Tail(items), mul,
                   (IF pad # 0 THEN nv \o Format(pad, mul) ELSE nv) \o Head(items), 0)

\* if pad: nv += ... after the loop
FinalFlush(l, mul) == IF l.pad # 0 THEN l.nv \o Format(l.pad, mul) ELSE l.nv

ValueToStr(v, mul) == FinalFlush(ValueLoop(Items(v), mul, <<>>, 0), mul)

\* ' '.join(res)
RECURSIVE Join(_, _)
Join(res, sep) ==
    IF res = <<>> THEN <<>>
    ELSE IF Len(res) = 1 THEN res[1]
    ELSE res[1] \o sep \o Join(Tail(res), sep)

\* Jumpcount: jm is [c, count]; inc adds one and gives the new value.
Jumpcount(count) == [c |-> 1, count |-> count]
Inc(jm) == [jm EXCEPT !.c = @ + 1]

\* The end of Attribute.tostr, res being the rendered values: jm.inc when
\* there is none, and the text between the quotes.
AttributeText(name, jm, res) ==
    [jm |-> IF res = <<>> THEN Inc(jm) ELSE jm,
     name |-> name,
     text |-> IF res # <<>> \/ ~jm.count THEN Join(res, <<" ">>)
              ELSE <<"$">> \o DecimalChars(jm.c + 1)]

\* Attribute.tostr(jm, mul)
Attribute_tostr(a, jm, mul) ==
    AttributeText(a.name, jm, [i \in 1..Len(a.value) |-> ValueToStr(a.value[i], mul)])

----------------------------------------------------------------------------
(* Tag.tostr, Emmet.tostr. *)

\* The rendered text is kept as the sequence of its tags in document order,
\* each with level (the tabs before it), name, attributes (their texts),
\* jump (the id printed as $id inside a tag without children; 0: none) and
\* mul (the index its attributes were rendered with).
Rendered(err, jm, lines) == [err |-> err, jm |-> jm, lines |-> lines]

\* An index that restarts in every group.
IndexPerGroup(tag, mul) == tag.mul_pos

\* _mul
StackedIndex(tag, mul) == tag.mul_end * (mul - 1) + tag.mul_pos
FlatIndex(tag, mul) == tag.mul_pos
EffectiveIndex(tag, mul, stacked) ==
    IF stacked THEN StackedIndex(tag, mul) ELSE FlatIndex(tag, mul)

\* map(lambda a: a.tostr(jm, mul=_mul), self.attributes)
RECURSIVE AttributesToStr(_, _, _, _, _)
NextAttribute(w, rest, a, mul, res) ==
    AttributesToStr(w, rest, a.jm, mul, Append(res, [name |-> a.name, text |-> a.text]))
AttributesToStr(w, attributes, jm, mul, res) ==
    IF attributes = <<>> THEN [jm |-> jm, res |-> res]
    ELSE NextAttribute(w, Tail(attributes),
                       Attribute_tostr(w.attrs[Head(attributes)], jm, mul), mul, res)

\* c = jm.inc: every tag takes the next value of the counter.
TakeJump(jm) == Inc(jm)

\* The text of one tag, its attributes rendered and c taken.
Line(tag, level, m, attributes, jm) ==
    [level |-> level, name |-> tag.name, attributes |-> attributes,
     jump |-> IF tag.children = <<>> /\ jm.count THEN jm.c ELSE 0,
     mul |-> m]

RECURSIVE Tag_tostr(_, _, _, _, _, _, _), ChildrenToStr(_, _, _, _, _, _, _, _)
TagBlock(w, tag, jm, level, m, attributes, stacked, depth) ==
    ChildrenToStr(w, tag.children, jm, level + 1, m, stacked, depth - 1,
                  <<Line(tag, level, m, attributes, jm)>>)
TagAttributes(w, tag, a, level, m, stacked, depth) ==
    TagBlock(w, tag, TakeJump(a.jm), level, m, a.res, stacked, depth)
TagIndexed(w, tag, jm, level, m, stacked, depth) ==
    TagAttributes(w, tag, AttributesToStr(w, tag.attributes, jm, m, <<>>),
                  level, m, stacked, depth)

\* Tag.tostr(jm, level, mul).  The Emmet object in a children list is handed
\* level and mul, which Emmet.tostr does not take: TypeError.
Tag_tostr(w, r, jm, level, mul, stacked, depth) ==
    IF r = Root \/ r = None \/ depth = 0 THEN Rendered(TRUE, jm, <<>>)
    ELSE TagIndexed(w, w.tags[r], jm, level,
                    EffectiveIndex(w.tags[r], mul, stacked), stacked, depth)

NextChild(w, rest, t, level, mul, stacked, depth, lines) ==
    IF t.err THEN Rendered(TRUE, t.jm, <<>>)
    ELSE ChildrenToStr(w, rest, t.jm, level, mul, stacked, depth, lines \o t.lines)
ChildrenToStr(w, children, jm, level, mul, stacked, depth, lines) ==
    IF children = <<>> THEN Rendered(FALSE, jm, lines)
    ELSE NextChild(w, Tail(children),
                   Tag_tostr(w, Head(children), jm, level, mul, stacked, depth),
                   level, mul, stacked, depth, lines)

\* Emmet.tostr(jm): stacked is the emmet_stacked_multiplication setting.
Emmet_tostr(w, jm, stacked) ==
    ChildrenToStr(w, w.e.children, jm, 0, 1, stacked, Frames(w), <<>>)

NoOutput == Rendered(FALSE, Jumpcount(FALSE), <<>>)

----------------------------------------------------------------------------
(* The state machine. *)

\* A multiplication the heap bound has no room for is not taken.
Fits(st) ==
    ~(st.o.op = "*" /\ IntOk(st.s) /\ IntVal(st.s) > MaxTags)

Now == Locals(World(tags, attrs, e), ct, o, s)

Become(st, next) ==
    /\ Len(st.w.tags) <= MaxTags
    /\ tags' = st.w.tags
    /\ attrs' = st.w.attrs
    /\ e' = st.w.e
    /\ ct' = st.ct
    /\ o' = st.o
    /\ s' = st.s
    /\ pc' = IF st.err THEN "raised" ELSE next

Init ==
    /\ emmet = <<>>
    /\ tags = <<>>
    /\ attrs = <<>>
    /\ e = EmmetInit
    /\ ct = Single(Root)
    /\ o = NoOp
    /\ s = <<>>
    /\ pc = "parse"
    /\ STACKED_MULTIPLICATION = FALSE
    /\ out = NoOutput

\* parse reads the next character c of the abbreviation.
Step(c) ==
    /\ pc = "parse"
    /\ Fits(Now)
    /\ emmet' = Append(emmet, c)
    /\ Become(LoopBody(Now, c), "parse")
    /\ UNCHANGED <<STACKED_MULTIPLICATION, out>>

Read(chars, max) == Len(emmet) < max /\ \E c \in chars : Step(c)

\* parse reaches the end of the abbreviation.
EndOfInput ==
    /\ pc = "parse"
    /\ Fits(Now)
    /\ Become(EndOfString(Now), "returned")
    /\ UNCHANGED <<emmet, STACKED_MULTIPLICATION, out>>

\* write and post_jump render the tree parse returned: str(e) without jump
\* ids, then E.tostr(Jumpcount(True)) with them.  Emmet.tostr first sets the
\* global from vim's emmet_stacked_multiplication.
Render(count, stacked) ==
    /\ pc \in {"returned", "rendered"}
    /\ STACKED_MULTIPLICATION' = stacked
    /\ out' = Emmet_tostr(World(tags, attrs, e), Jumpcount(count), stacked)
    /\ pc' = "rendered"
    /\ UNCHANGED <<emmet, tags, attrs, e, ct, o, s>>

RenderAny == \E count \in BOOLEAN, stacked \in BOOLEAN : Render(count, stacked)

\* Every operator with a tag name, a count and an invalid count.
Alphabet == {"a", "2", "0", ">", "+", "^", "#", ".", "*"}

Next ==
    \/ Read(Alphabet, MaxLen)
    \/ EndOfInput
    \/ RenderAny

Spec == Init /\ [][Next]_vars

\* Nesting, siblings and climbing.
ClimbChars == {"a", ">", "+", "^"}

NextClimb ==
    \/ Read(ClimbChars, MaxClimbLen)
    \/ EndOfInput

SpecClimb == Init /\ [][NextClimb]_vars

\* Multiplication followed by child, sibling and climb.
MulChars == {"a", "2", ">", "+", "^", "*"}

NextMul ==
    \/ Read(MulChars, MaxMulLen)
    \/ EndOfInput

SpecMul == Init /\ [][NextMul]_vars

\* Multiplication of a tag with attributes.
CloneChars == {"a", "2", ">", "#", ".", "*"}

NextClone ==
    \/ Read(CloneChars, MaxCloneLen)
    \/ EndOfInput

SpecClone == Init /\ [][NextClone]_vars

\* Nested multiplication, rendered.
StackChars == {"a", "2", "3", ">", "*"}

NextStack ==
    \/ Read(StackChars, MaxStackLen)
    \/ EndOfInput
    \/ RenderAny

SpecStack == Init /\ [][NextStack]_vars

\* Attribute.tostr on its own: one Attribute of one value of up to MaxValLen
\* characters, as '.' and a first '#' make them, or of a one-string list, as
\* a later '#' leaves it.
ValueChars == {"$", "x"}

RECURSIVE Strings(_, _)
Strings(chars, n) ==
    IF n = 0 THEN {<<>>}
    ELSE Strings(chars, n - 1)
         \cup {Append(v, c) : v \in Strings(chars, n - 1), c \in chars}

InitAttr ==
    /\ emmet = <<>>
    /\ tags = <<>>
    /\ \E v \in Strings(ValueChars, MaxValLen) \ {<<>>} :
           attrs \in {<<[name |-> "class", value |-> <<Str(v)>>]>>,
                      <<[name |-> "id", value |-> <<Str(v)>>]>>,
                      <<[name |-> "id", value |-> <<Nested(v)>>]>>}
    /\ e = EmmetInit
    /\ ct = Single(Root)
    /\ o = NoOp
    /\ s = <<>>
    /\ pc = "attr"
    /\ STACKED_MULTIPLICATION = FALSE
    /\ out = NoOutput

\* a.tostr(jm, mul=_mul)
AttributeToStr(mul, count) ==
    /\ pc = "attr"
    /\ out' = [mul |-> mul, attr |-> Attribute_tostr(attrs[1], Jumpcount(count), mul)]
    /\ pc' = "attrdone"
    /\ UNCHANGED <<emmet, tags, attrs, e, ct, o, s, STACKED_MULTIPLICATION>>

NextAttr == \E mul \in 1..MaxIndex, count \in BOOLEAN : AttributeToStr(mul, count)

SpecAttr == InitAttr /\ [][NextAttr]_vars

----------------------------------------------------------------------------
(* Vocabulary of the properties. *)

W == World(tags, attrs, e)
WNext == World(tags', attrs', e')

Range(seq) == {seq[i] : i \in DOMAIN seq}
Count(seq, x) == Cardinality({i \in DOMAIN seq : seq[i] = x})
Last(seq) == seq[Len(seq)]

\* The objects reachable from the root container through children lists.
RECURSIVE ReachFrom(_, _)
ReachFrom(frontier, seen) ==
    IF frontier = {} THEN seen
    ELSE LET new == (UNION {Range(Children(W, r)) : r \in frontier}) \ seen
         IN  ReachFrom(new, seen \cup new)
Reach == ReachFrom({Root}, {Root})
ReachTags == Reach \ {Root}

\* The abbreviation as its tokens: a first literal, then every operator
\* with the literal that follows it.
RECURSIVE Tokenize(_, _)
Tokenize(chars, toks) ==
    IF chars = <<>> THEN toks
    ELSE IF Head(chars) \in OperatorKeys
         THEN Tokenize(Tail(chars), Append(toks, [op |-> Head(chars), lit |-> <<>>]))
    ELSE IF Head(chars) = " " THEN Tokenize(Tail(chars), toks)
    ELSE Tokenize(Tail(chars),
                  [toks EXCEPT ![Len(toks)].lit = Append(@, Head(chars))])
Tokens == Tokenize(emmet, <<[op |-> "", lit |-> <<>>]>>)

\* The decimal form of an integer >= 1.
IsCount(lit) == IntOk(lit) /\ IntVal(lit) >= 1

\* This step applies the pending operation to s: the end of the input, or
\* the next operator.
Resolves == pc' # "parse" \/ (emmet' # emmet /\ Last(emmet') \in OperatorKeys)

\* The j-th ancestor of r along the parent references, None where it ends.
RECURSIVE Ancestor(_, _)
Ancestor(r, j) ==
    IF j = 0 \/ r = None THEN r
    ELSE Ancestor(IF r = Root THEN e.parent ELSE tags[r].parent, j - 1)

\* The first character other than a space is an operator.
LeadingOperator ==
    /\ Tokens[1].lit = <<>>
    /\ Len(Tokens) >= 2
    /\ Tokens[2].op \in {">", "+", "^", "#", ".", "*"}

\* Apart from the objects in changed, every children list stays as it is.
OthersKeep(changed) ==
    /\ Root \in changed \/ e'.children = e.children
    /\ \A r \in DOMAIN tags : r \in changed \/ tags'[r].children = tags[r].children

----------------------------------------------------------------------------
(* C1: in a tree parse returns, every node reachable from the root has a   *)
(* parent whose children hold it exactly once; no node is its own parent   *)
(* or child, and the root container is nobody's child.  Stated for the     *)
(* abbreviations that start with a tag name; the others are C2's.          *)

C1_ParentLinks ==
    (pc = "returned" /\ ~LeadingOperator) =>
        \A r \in ReachTags :
            /\ tags[r].parent # None
            /\ tags[r].parent # r
            /\ Count(Children(W, tags[r].parent), r) = 1
            /\ ~InSeq(tags[r].children, r)
            /\ ~InSeq(tags[r].children, Root)

(* C2: an abbreviation whose first character other than a space is an      *)
(* operator makes parse raise: it returns no root container.               *)

C2_LeadingOperatorRaises == pc = "returned" => ~LeadingOperator

(* C3: for X*S with S not the decimal form of an integer >= 1 parse        *)
(* raises, and no tree it returns has a node of group size below 1.        *)

BadCountForm ==
    /\ Len(Tokens) = 2
    /\ Tokens[1].lit # <<>>
    /\ Tokens[2].op = "*"
    /\ Tokens[2].lit # <<>>
    /\ ~IsCount(Tokens[2].lit)

C3_BadCountRaises ==
    pc = "returned" =>
        /\ ~BadCountForm
        /\ \A r \in ReachTags : tags[r].mul_end >= 1

(* C4: P>X*N with N >= 1, X with or without `#`/`.` attributes: P has      *)
(* exactly N children named X, at positions 1..N in order, each of group   *)
(* size N and of parent P, and each with attributes of its own that equal  *)
(* the template's in name and values.                                      *)

MulForm ==
    /\ Len(Tokens) >= 3
    /\ Tokens[1].lit # <<>>
    /\ Tokens[2].op = ">" /\ Tokens[2].lit # <<>>
    /\ \A i \in 3..(Len(Tokens) - 1) : Tokens[i].op \in {"#", "."} /\ Tokens[i].lit # <<>>
    /\ Last(Tokens).op = "*" /\ IsCount(Last(Tokens).lit)

AttributesOf(r) == [i \in DOMAIN tags[r].attributes |-> attrs[tags[r].attributes[i]]]

C4_Multiplied ==
    (pc = "returned" /\ MulForm) =>
        LET n == IntVal(Last(Tokens).lit)
            p == e.children[1]
            kids == tags[p].children
        IN  /\ Len(e.children) = 1
            /\ tags[p].name = Tokens[1].lit
            /\ Len(kids) = n
            /\ \A i \in 1..n :
                   /\ tags[kids[i]].name = Tokens[2].lit
                   /\ tags[kids[i]].mul_pos = i
                   /\ tags[kids[i]].mul_end = n
                   /\ tags[kids[i]].parent = p
                   /\ tags[kids[i]].children = <<>>
                   /\ AttributesOf(kids[i]) = AttributesOf(kids[1])
                   /\ \A j \in 1..n : j # i =>
                          Range(tags[kids[i]].attributes)
                              \cap Range(tags[kids[j]].attributes) = {}

C4_Witness ==
    /\ pc = "returned"
    /\ MulForm
    /\ Len(Tokens) = 4
    /\ Len(tags[e.children[1]].children) = 2
    /\ Len(tags[tags[e.children[1]].children[2]].attributes) = 1

(* C5: in a counting render the i-th tag without children, in document     *)
(* order, prints the jump id i.                                            *)

IsLeafLine(lines, i) == i = Len(lines) \/ lines[i + 1].level <= lines[i].level
LeavesUpTo(lines, i) == Cardinality({j \in 1..i : IsLeafLine(lines, j)})

C5_LeafJumps ==
    (pc = "rendered" /\ ~out.err /\ out.jm.count) =>
        \A i \in DOMAIN out.lines :
            IsLeafLine(out.lines, i) => out.lines[i].jump = LeavesUpTo(out.lines, i)

(* C6, as written: only the first run of `$` in a value is replaced by the *)
(* index, zero-padded to the length of the run; later runs stay as `$`.    *)

RunLength(v, i) ==
    CHOOSE k \in 1..(Len(v) - i + 1) :
        /\ \A j \in i..(i + k - 1) : v[j] = "$"
        /\ i + k > Len(v) \/ v[i + k] # "$"

\* m in decimal, zero-padded to width k.
Padded(k, m) ==
    IF Len(DecimalChars(m)) >= k THEN DecimalChars(m)
    ELSE Zeros(k - Len(DecimalChars(m))) \o DecimalChars(m)

\* v with its runs of `$` replaced from position i on: every run, or the
\* first one only.
RECURSIVE ReplaceRuns(_, _, _, _)
ReplaceRuns(v, i, m, all) ==
    IF i > Len(v) THEN <<>>
    ELSE IF v[i] # "$" THEN <<v[i]>> \o ReplaceRuns(v, i + 1, m, all)
    ELSE Padded(RunLength(v, i), m)
         \o (IF all THEN ReplaceRuns(v, i + RunLength(v, i), m, all)
             ELSE SubSeq(v, i + RunLength(v, i), Len(v)))

AttributeForm ==
    /\ Len(Tokens) >= 2
    /\ Tokens[1].lit # <<>>
    /\ \A i \in 2..Len(Tokens) : Tokens[i].op \in {"#", "."} /\ Tokens[i].lit # <<>>

Given(op) == SelectSeq(Tokens, LAMBDA tok : tok.op = op)

C7_AttributeMerge ==
    (pc = "returned" /\ AttributeForm) =>
        LET given == AttributesOf(e.children[1])
        IN  /\ \A i, j \in DOMAIN given : given[i].name = given[j].name => i = j
            /\ \A i \in DOMAIN given :
                   /\ given[i].name = "id" =>
                          given[i].value = <<Str(Last(Given("#")).lit)>>
                   /\ given[i].name = "class" =>
                          given[i].value = [k \in DOMAIN Given(".") |-> Str(Given(".")[k].lit)]
            /\ Given("#") # <<>> => \E i \in DOMAIN given : given[i].name = "id"
            /\ Given(".") # <<>> => \E i \in DOMAIN given : given[i].name = "class"

(* C8: when ct is one node with at least k+1 ancestors, the root container *)
(* counted, and k >= 1 `^` are pending with a literal L, resolving them    *)
(* makes exactly one new node named L, the last child of ct's (k+1)-th     *)
(* ancestor and with that ancestor as its parent, and changes no other     *)
(* children list; `a>b^c` puts c under the root, `a>b+c` under a.          *)

ClimbPending ==
    /\ pc = "parse"
    /\ o.op = "^"
    /\ s # <<>>
    /\ ~ct.list
    /\ Ancestor(ct.objs[1], o.stack + 2) # None

ClimbAttached ==
    LET a == Ancestor(ct.objs[1], o.stack + 2)
        new == Len(tags) + 1
    IN  /\ pc' # "raised"
        /\ Len(tags') = new
        /\ tags'[new].name = s
        /\ tags'[new].parent = a
        /\ Children(WNext, a) = Append(Children(W, a), new)
        /\ OthersKeep({a})
        /\ \A r \in DOMAIN tags : tags'[r].parent = tags[r].parent

ClimbIsNotSibling ==
    /\ (pc = "returned" /\ emmet = <<"a", ">", "a", "^", "a">>) =>
           e.children = <<1, 3>> /\ tags[1].children = <<2>> /\ tags[3].parent = Root
    /\ (pc = "returned" /\ emmet = <<"a", ">", "a", "+", "a">>) =>
           e.children = <<1>> /\ tags[1].children = <<2, 3>> /\ tags[3].parent = 1

C8_ClimbAttaches ==
    /\ [][(ClimbPending /\ Resolves) => ClimbAttached]_vars
    /\ []ClimbIsNotSibling

C8_Witness ==
    /\ pc = "returned"
    /\ emmet = <<"a", ">", "a", ">", "a", ">", "a", "^", "^", "^", "a">>
    /\ o = Op("^", 2)
    /\ e.children = <<1, 5>>
    /\ tags[5].parent = Root

(* C9: for X*M>Y*N rendered with the stacked policy the Y tags, in         *)
(* document order, have the effective indexes 1,2,...,M*N; with the flat   *)
(* policy each has its own position 1..N in every group.                   *)

NestedMulForm ==
    /\ Len(Tokens) = 4
    /\ Tokens[1].lit # <<>>
    /\ Tokens[2].op = "*" /\ IsCount(Tokens[2].lit)
    /\ Tokens[3].op = ">" /\ Tokens[3].lit # <<>>
    /\ Tokens[4].op = "*" /\ IsCount(Tokens[4].lit)

Inner == SelectSeq(out.lines, LAMBDA l : l.level = 1)

C9_EffectiveIndex ==
    (pc = "rendered" /\ ~out.err /\ NestedMulForm) =>
        LET m == IntVal(Tokens[2].lit)
            n == IntVal(Tokens[4].lit)
        IN  /\ Len(Inner) = m * n
            /\ \A i \in 1..(m * n) :
                   Inner[i].mul = IF STACKED_MULTIPLICATION THEN i
                                  ELSE ((i - 1) % n) + 1

C9_Witness ==
    /\ pc = "rendered"
    /\ STACKED_MULTIPLICATION
    /\ emmet = <<"a", "*", "2", ">", "a", "*", "3">>
    /\ Len(Inner) = 6
    /\ Inner[4].mul = 4

(* C10, as written: a child operator on a group of N >= 2 members gives    *)
(* every member exactly one new child, the N children pairwise distinct    *)
(* and each with the member as its parent; a sibling or a climb operator   *)
(* on a group whose members share one parent attaches exactly one new node *)
(* to that shared parent.                                                  *)

GroupPending(op) ==
    /\ pc = "parse"
    /\ o = Op(op, 0)
    /\ s # <<>>
    /\ ct.list
    /\ Len(ct.objs) >= 2

SharedParent == tags[ct.objs[1]].parent
ShareOneParent == \A i \in DOMAIN ct.objs : tags[ct.objs[i]].parent = SharedParent

\* The children lists of the next state that hold c.
HoldersNext(c) ==
    {r \in {Root} \cup DOMAIN tags' : InSeq(Children(WNext, r), c)}

\* Every member receives a new child of its own.
ChildPerMember ==
    LET base == Len(tags)
        n == Len(ct.objs)
    IN  /\ pc' # "raised"
        /\ Len(tags') = base + 1 + n
        /\ \A i \in 1..n :
               \E c \in (base + 1)..(base + 1 + n) :
                   /\ tags'[ct.objs[i]].children = Append(tags[ct.objs[i]].children, c)
                   /\ tags'[c].parent = ct.objs[i]
                   /\ tags'[c].name = s
        /\ \A c \in (base + 1)..(base + 1 + n) : Cardinality(HoldersNext(c)) <= 1
        /\ OthersKeep(Range(ct.objs))

\* One new node, the last child of a, and no other.
OneNodeUnder(a) ==
    LET base == Len(tags)
    IN  /\ pc' # "raised"
        /\ Len(tags') = base + 2
        /\ \E c \in {base + 1, base + 2} :
               /\ Children(WNext, a) = Append(Children(W, a), c)
               /\ tags'[c].parent = a
               /\ tags'[c].name = s
               /\ HoldersNext(c) = {a}
               /\ \A d \in {base + 1, base + 2} \ {c} : HoldersNext(d) = {}
        /\ OthersKeep({a})

C10_GroupBroadcast ==
    /\ [][(GroupPending(">") /\ Resolves) => ChildPerMember]_vars
    /\ [][(GroupPending("+") /\ ShareOneParent /\ Resolves)
              => OneNodeUnder(SharedParent)]_vars
    /\ [][(GroupPending("^") /\ ShareOneParent /\ Ancestor(SharedParent, 1) # None
              /\ Resolves) => OneNodeUnder(SharedParent)]_vars

(* C10, amended: as above for the child and the sibling operator; a climb  *)
(* operator on a group whose members share one parent, that parent having  *)
(* a parent itself, attaches exactly one new node to the parent of the     *)
(* shared parent.                                                          *)

C10_GroupClimbsOneLevel ==
    /\ [][(GroupPending(">") /\ Resolves) => ChildPerMember]_vars
    /\ [][(GroupPending("+") /\ ShareOneParent /\ Resolves)
              => OneNodeUnder(SharedParent)]_vars
    /\ [][(GroupPending("^") /\ ShareOneParent /\ Ancestor(SharedParent, 1) # None
              /\ Resolves) => OneNodeUnder(Ancestor(SharedParent, 1))]_vars

C10_Witness ==
    /\ pc = "returned"
    /\ emmet = <<"a", ">", "a", "*", "2", "^", "a">>
    /\ Len(tags[1].children) = 2
    /\ Len(e.children) = 2

====
